---- MODULE Spec2Model ----
(***************************************************************************)
(* MedicalOrchestrator.run_diagnostic_loop (src/src/core/orchestrator.py)  *)
(* as a state machine over one PatientCase (Spec, FairSpec); the tools of  *)
(* the root agent (src/medagent/tools.py) called in any order on one       *)
(* session state (ToolSpec); Vitals.is_stable (src/src/domain/models.py)   *)
(* on the values its validators accept (VitalsSpec).                       *)
(*                                                                         *)
(* Text is a sequence of tokens.  A token is a protocol marker             *)
(* ("ORDER_LAB:"), a whitespace character (" ", "\n") or an opaque run of  *)
(* other characters ("chest pain").  `m in s`, s.split(m)[1] and s.strip() *)
(* are computed on the tokens the way Python computes them on characters.  *)
(***************************************************************************)
EXTENDS Naturals, Sequences, FiniteSets, TLC

VARIABLES
    pc,               \* position in run_diagnostic_loop
    case,             \* the PatientCase
    complaint,        \* local complaint (None or text)
    triage_complete,  \* local
    triage_attempts,  \* local
    i,                \* loop variable of the Judge Loop
    user_finished,    \* local
    decision,         \* local: the judge response of the current iteration
    choice,           \* local: the patient's choice at the ASK_PATIENT prompt
    user_answer,      \* local: the patient's answer
    exc,              \* reason of the EmergencyAbortException in flight
    now,              \* datetime.now(), as a logical clock
    focus,            \* which phase the environment explores exhaustively
    odd,              \* faults and multi-marker responses produced so far
    calls,            \* history: number of _invoke_agent calls per worker
    lastCall,         \* history: the most recent _invoke_agent call
    hypoNonEmpty,     \* history: hypothesis invocations with a non-empty result
    fdWrites,         \* history: assignments to case.final_diagnosis
    loops,            \* history: Judge Loop iterations started
    reached,          \* history: terminal states reached
    state,            \* tools.py: tool_context.state, the session state
    db,               \* patient_db_tool.py: what the database holds
    call,             \* tools.py: the tool call in progress or last made
    result,           \* tools.py: how that call ended
    vitals,           \* models.py: a Vitals object
    stable            \* models.py: the last value read from Vitals.is_stable

vars == <<pc, case, complaint, triage_complete, triage_attempts, i,
          user_finished, decision, choice, user_answer, exc, now, focus, odd, calls, lastCall,
          hypoNonEmpty, fdWrites, loops, reached,
          state, db, call, result, vitals, stable>>

\* what run_diagnostic_loop works on
orchVars == <<pc, case, complaint, triage_complete, triage_attempts, i,
              user_finished, decision, choice, user_answer, exc, now, focus,
              odd, calls, lastCall, hypoNonEmpty, fdWrites, loops, reached>>

\* what the tools of the root agent work on
toolVars == <<state, db, call, result>>

\* what Vitals works on
vitalVars == <<vitals, stable>>

locals == <<complaint, triage_complete, triage_attempts, i, user_finished,
            decision, choice, user_answer, exc>>

----------------------------------------------------------------------------
(* Bounds of the exploration *)

\* faults (empty response, raised error) and multi-marker responses the
\* workers may produce after triage in one session
MaxOdd == 1

(* Program constants *)
MAX_LOOPS == 3
max_triage_attempts == 5

----------------------------------------------------------------------------
(* Text *)

EMERGENCY_ABORT    == "EMERGENCY_ABORT:"
CLARIFY_COMPLAINT  == "CLARIFY_COMPLAINT:"
TRIAGE_SUMMARY     == "TRIAGE_SUMMARY:"
ORDER_LAB          == "ORDER_LAB:"
ORDER_IMAGING      == "ORDER_IMAGING:"
CONSULT_LITERATURE == "CONSULT_LITERATURE:"
ASK_PATIENT        == "ASK_PATIENT:"
DIAGNOSIS_FINAL    == "DIAGNOSIS_FINAL:"

Whitespace == {" ", "\n"}

\* m in s
Contains(s, m) == \E k \in 1..Len(s) : s[k] = m

\* the least element of a non-empty set of naturals
Least(S) == CHOOSE k \in S : \A j \in S : k <= j
Greatest(S) == CHOOSE k \in S : \A j \in S : j <= k

\* s.split(m)[1], for m in s: the text between the first occurrence of m
\* and the next one (or the end)
SplitAfter(s, m) ==
    LET first == Least({k \in 1..Len(s) : s[k] = m})
        rest  == SubSeq(s, first + 1, Len(s))
        nxt   == {k \in 1..Len(rest) : rest[k] = m}
    IN  IF nxt = {} THEN rest ELSE SubSeq(rest, 1, Least(nxt) - 1)

\* s.strip()
Strip(s) ==
    LET keep == {k \in 1..Len(s) : s[k] \notin Whitespace}
    IN  IF keep = {} THEN <<>> ELSE SubSeq(s, Least(keep), Greatest(keep))

\* Optional[str]
None == [isNone |-> TRUE, text |-> <<>>]
Str(s) == [isNone |-> FALSE, text |-> s]

\* bool(x) of an Optional[str]
Truthy(x) == ~x.isNone /\ x.text # <<>>

----------------------------------------------------------------------------
(* PatientCase *)

AgentNames == {"triage", "hypothesis", "judge", "evidence", "imaging", "research"}

\* agent.upper()
Upper(agent) ==
    CASE agent = "triage"     -> "TRIAGE"
      [] agent = "hypothesis" -> "HYPOTHESIS"
      [] agent = "judge"      -> "JUDGE"
      [] agent = "evidence"   -> "EVIDENCE"
      [] agent = "imaging"    -> "IMAGING"
      [] agent = "research"   -> "RESEARCH"
      [] agent = "system"     -> "SYSTEM"

\* add_log putting the entry at the front of the log
add_log_front(log, ts, agent, action) ==
    <<[ts |-> ts, agent |-> Upper(agent), action |-> action]>> \o log

\* PatientCase.add_log: one entry "[<now>] <AGENT>: <action>" at the end
add_log(log, ts, agent, action) ==
    Append(log, [ts |-> ts, agent |-> Upper(agent), action |-> action])

\* PatientCase(chief_complaint="", age=age, gender=sex)
NewCase ==
    [chief_complaint         |-> <<>>,
     history_present_illness |-> <<>>,
     differential_diagnosis  |-> <<>>,
     research_notes          |-> <<>>,
     final_diagnosis         |-> None,
     action_log              |-> <<>>]

----------------------------------------------------------------------------
(* _invoke_agent *)

\* What the runner does: it yields a final text (possibly empty) or raises.
Text(s)   == [kind |-> "text",  text |-> s]
Raise(s)  == [kind |-> "raise", text |-> s]

NoResponse == <<"ERROR: No response from agent.">>
SystemError(msg) == <<"SYSTEM ERROR: ">> \o msg

\* _invoke_agent writing an audit entry for a raised error
InvokeAgentLogsErrors(agent_name, task, log, ts, out) ==
    IF out.kind = "raise"
    THEN [ret |-> SystemError(out.text),
          log |-> add_log(log, ts, agent_name, SystemError(out.text)),
          ts  |-> ts + 1]
    ELSE IF out.text = <<>>
    THEN [ret |-> NoResponse, log |-> log, ts |-> ts]
    ELSE [ret |-> out.text,
          log |-> add_log(log, ts, agent_name, out.text),
          ts  |-> ts + 1]

\* _invoke_agent testing response_text.strip() for emptiness
InvokeAgentStripsBlank(agent_name, task, log, ts, out) ==
    IF out.kind = "raise"
    THEN [ret |-> SystemError(out.text), log |-> log, ts |-> ts]
    ELSE IF Strip(out.text) = <<>>
    THEN [ret |-> NoResponse, log |-> log, ts |-> ts]
    ELSE [ret |-> out.text,
          log |-> add_log(log, ts, agent_name, out.text),
          ts  |-> ts + 1]

\* _invoke_agent returning the response before the audit entry is written
InvokeAgentNoAudit(agent_name, task, log, ts, out) ==
    IF out.kind = "raise"
    THEN [ret |-> SystemError(out.text), log |-> log, ts |-> ts]
    ELSE IF out.text = <<>>
    THEN [ret |-> NoResponse, log |-> log, ts |-> ts]
    ELSE [ret |-> out.text, log |-> log, ts |-> ts]

\* _invoke_agent(agent_name, task, case) on the runner outcome `out`:
\* the value returned and the action_log / clock it leaves
InvokeAgent(agent_name, task, log, ts, out) ==
    IF out.kind = "raise"
    THEN [ret |-> SystemError(out.text), log |-> log, ts |-> ts]
    ELSE IF out.text = <<>>
    THEN [ret |-> NoResponse, log |-> log, ts |-> ts]
    ELSE [ret |-> out.text,
          log |-> add_log(log, ts, agent_name, out.text),
          ts  |-> ts + 1]

\* 1 when the runner yields a non-empty text, else 0
NonEmpty(out) == IF out.kind = "text" /\ out.text # <<>> THEN 1 ELSE 0

\* the history record of one call
CallRecord(agent_name, task, log, out, r) ==
    [agent |-> agent_name, task |-> task, out |-> out, ret |-> r.ret,
     log_before |-> log, log_after |-> r.log]

NoCall ==
    [agent |-> "none", task |-> <<>>, out |-> Text(<<>>), ret |-> <<>>,
     log_before |-> <<>>, log_after |-> <<>>]

Bump(agent_name) == [calls EXCEPT ![agent_name] = @ + 1]

----------------------------------------------------------------------------
(* The environment: what the patient types and what the workers answer *)
(*                                                                         *)
(* focus = "triage": every patient input and triage outcome is explored,   *)
(* and the later workers answer plainly.  focus = "loop": triage is        *)
(* accepted at once, and after it every single-marker answer is explored,  *)
(* together with at most MaxOdd faults or multi-marker answers of the      *)
(* judge.  focus = "workers": the same, with at most MaxOdd faults of the  *)
(* hypothesis, evidence, imaging and research workers instead.             *)

\* console.input() before .strip()
ComplaintInputs ==
    IF focus = "triage" THEN {<<" ">>, <<"chest pain", " ">>}
    ELSE {<<"chest pain", " ">>}

EmptyResponse == Text(<<>>)
BlankResponse == Text(<<" ">>)
UpstreamFailure == Raise(<<"503 unavailable">>)
Faults == {EmptyResponse, BlankResponse, UpstreamFailure}

TriageSummary == Text(<<TRIAGE_SUMMARY, " ", "chest pain for two days", "\n">>)
TriageClarify == Text(<<CLARIFY_COMPLAINT, " ", "where does it hurt?">>)
TriageEmergency == Text(<<EMERGENCY_ABORT, " ", "crushing chest pain", " ">>)
TriageFreeText == Text(<<"stable, chest pain">>)
TriageMixed ==
    {Text(<<CLARIFY_COMPLAINT, " ", "since when?", " ", EMERGENCY_ABORT, " ", "stroke signs">>),
     Text(<<TRIAGE_SUMMARY, " ", "headache", " ", EMERGENCY_ABORT, " ", "stroke signs">>),
     Text(<<CLARIFY_COMPLAINT, " ", "since when?", " ", TRIAGE_SUMMARY, " ", "headache">>),
     Text(<<TRIAGE_SUMMARY, " ", "headache", " ", CLARIFY_COMPLAINT, " ", "since when?">>)}

TriageOutcomes ==
    IF focus = "triage"
    THEN {TriageSummary, TriageClarify, TriageEmergency, TriageFreeText}
         \cup TriageMixed \cup Faults
    ELSE {TriageSummary}

\* after triage: the plain answers, and the odd ones while the budget lasts
Budget(plain, oddOnes) ==
    IF focus = "loop" /\ odd < MaxOdd THEN plain \cup oddOnes ELSE plain

\* the same for the workers other than the judge, under focus = "workers"
WorkerBudget(plain, oddOnes) ==
    IF focus = "workers" /\ odd < MaxOdd THEN plain \cup oddOnes ELSE plain

Spend(out, oddOnes) == IF out \in oddOnes THEN odd + 1 ELSE odd

\* the hypothesis worker refines its answer from call to call
Differentials == <<"1. GERD 2. ACS", "1. ACS 2. GERD", "1. ACS 2. PE", "1. NSTEMI">>
HypothesisText ==
    LET n == calls["hypothesis"] + 1
    IN  Text(<<Differentials[IF n <= Len(Differentials) THEN n ELSE Len(Differentials)]>>)
HypothesisOutcomes == WorkerBudget({HypothesisText}, {EmptyResponse, UpstreamFailure})

JudgeFinal == Text(<<"reasoning", " ", DIAGNOSIS_FINAL, " ", "NSTEMI", " ">>)
JudgeFreeText == Text(<<"need more data">>)
JudgeLab == Text(<<ORDER_LAB, " ", "Troponin">>)
JudgeImaging == Text(<<ORDER_IMAGING, " ", "Chest X-Ray">>)
JudgeLiterature == Text(<<CONSULT_LITERATURE, " ", "ACS guidelines">>)
JudgeAsk == Text(<<ASK_PATIENT, " ", "does it radiate?">>)
JudgePlain ==
    IF focus = "triage" THEN {JudgeFinal, JudgeFreeText}
    ELSE {JudgeFinal, JudgeFreeText, JudgeLab, JudgeImaging, JudgeLiterature, JudgeAsk}
JudgeFinalEmpty == Text(<<DIAGNOSIS_FINAL, " ">>)
JudgeImagingThenLab ==
    Text(<<ORDER_IMAGING, " ", "Chest X-Ray", " ", ORDER_LAB, " ", "Troponin">>)
JudgeLabThenAsk ==
    Text(<<ORDER_LAB, " ", "Troponin", " ", ASK_PATIENT, " ", "does it radiate?">>)
JudgeAskThenFinal ==
    Text(<<ASK_PATIENT, " ", "does it radiate?", " ", DIAGNOSIS_FINAL, " ", "NSTEMI">>)
JudgeEmergency == Text(<<EMERGENCY_ABORT, " ", "cardiac arrest">>)
JudgeOdd ==
    {JudgeFinalEmpty, JudgeImagingThenLab, JudgeLabThenAsk, JudgeAskThenFinal,
     JudgeEmergency}
    \cup Faults
JudgeOutcomes == Budget(JudgePlain, JudgeOdd)

SpecialistText == Text(<<"result: elevated">>)
SpecialistOutcomes == WorkerBudget({SpecialistText}, {EmptyResponse, UpstreamFailure})

HandoffText == Text(<<"handoff report">>)
HandoffOutcomes == WorkerBudget({HandoffText}, {EmptyResponse, UpstreamFailure})

\* console.input() at the "Your choice (1 or 2)" prompt, before .strip()
ChoiceInputs == {<<"1">>, <<" ", "2">>, <<"yes">>}
\* console.input() at the PATIENT ANSWER prompt
AnswerInputs == {<<"to the left arm">>, <<" ">>}

----------------------------------------------------------------------------
(* run_diagnostic_loop: the decisions *)

\* the triage loop with an off-by-one bound
TriageLoopOneMore(complete, attempts) ==
    ~complete /\ attempts <= max_triage_attempts

\* while not triage_complete and triage_attempts < max_triage_attempts
TriageLoopContinues(complete, attempts) ==
    ~complete /\ attempts < max_triage_attempts

\* the branch taken from the marker that comes first in the response
TriageBranchFirstInText(triage_out) ==
    LET at(m) == IF Contains(triage_out, m)
                 THEN Least({k \in 1..Len(triage_out) : triage_out[k] = m})
                 ELSE Len(triage_out) + 1
        first == Least({at(EMERGENCY_ABORT), at(CLARIFY_COMPLAINT), at(TRIAGE_SUMMARY)})
    IN  IF first > Len(triage_out) THEN "accept"
        ELSE IF first = at(EMERGENCY_ABORT) THEN "emergency"
        ELSE IF first = at(CLARIFY_COMPLAINT) THEN "clarify"
        ELSE "summary"

\* the if-chain without the emergency check
TriageBranchNoEmergency(triage_out) ==
    IF Contains(triage_out, CLARIFY_COMPLAINT) THEN "clarify"
    ELSE IF Contains(triage_out, TRIAGE_SUMMARY) THEN "summary"
    ELSE "accept"

\* the if-chain on the triage response
TriageBranch(triage_out) ==
    IF Contains(triage_out, EMERGENCY_ABORT) THEN "emergency"
    ELSE IF Contains(triage_out, CLARIFY_COMPLAINT) THEN "clarify"
    ELSE IF Contains(triage_out, TRIAGE_SUMMARY) THEN "summary"
    ELSE "accept"

\* the exception carrying the bare reason
EmergencyMessageBare(reason) == reason

\* str(EmergencyAbortException(reason))
EmergencyMessage(reason) == <<"EMERGENCY PROTOCOL ACTIVATED: ">> \o reason

\* the judge loop bounded by the patient's choice only
JudgeLoopUntilFinished(k, finished) == ~finished

\* the judge loop with an off-by-one bound
JudgeLoopOneMore(k, finished) == k <= MAX_LOOPS /\ ~finished

\* for i in range(MAX_LOOPS): if user_finished: break
JudgeLoopContinues(k, finished) == k < MAX_LOOPS /\ ~finished

\* the append skipped when the invocation produced an error text
RecordHypothesisSkipErrors(differential, hypo_out) ==
    IF hypo_out = NoResponse \/ hypo_out[1] = "SYSTEM ERROR: " THEN differential
    ELSE Append(differential, hypo_out)

\* case.differential_diagnosis.append(hypo_out)
RecordHypothesis(differential, hypo_out) == Append(differential, hypo_out)

\* the fallback taking the first snapshot instead of the last
FinalFallbackFirst(differential) ==
    IF differential # <<>> THEN differential[1]
    ELSE <<"Inconclusive - Referral Required">>

\* case.differential_diagnosis[-1] if case.differential_diagnosis else "Inconclusive ..."
FinalFallback(differential) ==
    IF differential # <<>> THEN differential[Len(differential)]
    ELSE <<"Inconclusive - Referral Required">>

\* str(case.differential_diagnosis[-1]) if case.differential_diagnosis else ""
Context(differential) ==
    IF differential # <<>> THEN differential[Len(differential)] ELSE <<>>

\* every valid choice finishing the evaluation
UserFinishesAlways(picked, answer) == TRUE

\* the if / elif on choice: user_finished after the prompt (it was False before)
UserFinishes(picked, answer) ==
    IF picked = <<"1">> THEN Strip(answer) = <<>> ELSE picked = <<"2">>

\* a literature lookup as the default branch of _dispatch_command
NoTargetResearch == [agent |-> "research", task |-> <<>>, label |-> "Research Finding: "]

\* _dispatch_command: no branch matches, or the ASK_PATIENT branch (pass)
NoTarget == [agent |-> "none", task |-> <<>>, label |-> ""]

\* _dispatch_command testing ORDER_IMAGING: before ORDER_LAB:
DispatchTargetImagingFirst(dec, differential) ==
    IF Contains(dec, ORDER_IMAGING)
    THEN [agent |-> "imaging",
          task  |-> <<"Order ">> \o Strip(SplitAfter(dec, ORDER_IMAGING))
                    \o <<" with context='">> \o Context(differential) \o <<"'">>,
          label |-> "Imaging Report Received: "]
    ELSE IF Contains(dec, ORDER_LAB)
    THEN [agent |-> "evidence",
          task  |-> <<"Order ">> \o Strip(SplitAfter(dec, ORDER_LAB))
                    \o <<" with context='">> \o Context(differential) \o <<"'">>,
          label |-> "Lab Result Received: "]
    ELSE IF Contains(dec, CONSULT_LITERATURE)
    THEN [agent |-> "research",
          task  |-> Strip(SplitAfter(dec, CONSULT_LITERATURE)),
          label |-> "Research Finding: "]
    ELSE NoTarget

\* _dispatch_command sending a lab order to the imaging worker
DispatchTargetLabAsImaging(dec, differential) ==
    IF Contains(dec, ORDER_LAB)
    THEN [agent |-> "imaging",
          task  |-> <<"Order ">> \o Strip(SplitAfter(dec, ORDER_LAB))
                    \o <<" with context='">> \o Context(differential) \o <<"'">>,
          label |-> "Imaging Report Received: "]
    ELSE IF Contains(dec, ORDER_IMAGING)
    THEN [agent |-> "imaging",
          task  |-> <<"Order ">> \o Strip(SplitAfter(dec, ORDER_IMAGING))
                    \o <<" with context='">> \o Context(differential) \o <<"'">>,
          label |-> "Imaging Report Received: "]
    ELSE IF Contains(dec, CONSULT_LITERATURE)
    THEN [agent |-> "research",
          task  |-> Strip(SplitAfter(dec, CONSULT_LITERATURE)),
          label |-> "Research Finding: "]
    ELSE NoTarget

\* _dispatch_command: the specialist the decision is routed to, its task and
\* the label of the system entry
DispatchTarget(dec, differential) ==
    IF Contains(dec, ORDER_LAB)
    THEN [agent |-> "evidence",
          task  |-> <<"Order ">> \o Strip(SplitAfter(dec, ORDER_LAB))
                    \o <<" with context='">> \o Context(differential) \o <<"'">>,
          label |-> "Lab Result Received: "]
    ELSE IF Contains(dec, ORDER_IMAGING)
    THEN [agent |-> "imaging",
          task  |-> <<"Order ">> \o Strip(SplitAfter(dec, ORDER_IMAGING))
                    \o <<" with context='">> \o Context(differential) \o <<"'">>,
          label |-> "Imaging Report Received: "]
    ELSE IF Contains(dec, CONSULT_LITERATURE)
    THEN [agent |-> "research",
          task  |-> Strip(SplitAfter(dec, CONSULT_LITERATURE)),
          label |-> "Research Finding: "]
    ELSE NoTarget

----------------------------------------------------------------------------
(* The session state of the root agent's tools (src/medagent/tools.py) *)

\* Python values kept in tool_context.state
PyStr(s)  == [type |-> "str",  s |-> s,    n |-> 0]
PyInt(k)  == [type |-> "int",  s |-> <<>>, n |-> k]
PyBool(b) == [type |-> "bool", s |-> <<>>, n |-> IF b THEN 1 ELSE 0]
PyNone    == [type |-> "None", s |-> <<>>, n |-> 0]

\* bool(v)
PyTruthy(v) ==
    CASE v.type = "str" -> v.s # <<>>
      [] v.type \in {"int", "bool"} -> v.n # 0
      [] OTHER -> FALSE

\* a dict: d[k] = v, d.get(k, default), k in d
EmptyDict == [k \in {} |-> PyNone]
Put(d, k, v) == [x \in DOMAIN d \cup {k} |-> IF x = k THEN v ELSE d[x]]
Get(d, k, default) == IF k \in DOMAIN d THEN d[k] ELSE default

\* how a tool call ends: it returns a message or raises
Returns(msg) == [kind |-> "return", text |-> msg, requested |-> FALSE]
Raises(err)  == [kind |-> "raise",  text |-> <<err>>, requested |-> FALSE]
NoResult     == [kind |-> "none",   text |-> <<>>, requested |-> FALSE]

\* a tool call and its arguments
ToolCall(tool, key, arg, confirmed) ==
    [tool |-> tool, key |-> key, arg |-> arg, confirmed |-> confirmed]
NoToolCall == ToolCall("none", "", PyNone, FALSE)

\* the database before any patient is known to it
EmptyDb == [row |-> FALSE, question |-> FALSE, lab |-> FALSE, files |-> FALSE]

ToolsIdle ==
    /\ state = EmptyDict
    /\ db = EmptyDb
    /\ call = NoToolCall
    /\ result = NoResult

(* Vitals (src/src/domain/models.py) *)

\* an Optional[int]
NoValue == [isNone |-> TRUE, n |-> 0]
Value(k) == [isNone |-> FALSE, n |-> k]

NoVitals == [bp_systolic |-> NoValue, hr |-> NoValue, spo2 |-> NoValue]

VitalsIdle ==
    /\ vitals = NoVitals
    /\ stable = TRUE

----------------------------------------------------------------------------
(* run_diagnostic_loop: the steps *)

\* the locals and the Case at the start of run_diagnostic_loop
OrchInit ==
    /\ pc = "triage"
    /\ case = NewCase
    /\ complaint = None
    /\ triage_complete = FALSE
    /\ triage_attempts = 0
    /\ i = 0
    /\ user_finished = FALSE
    /\ decision = <<>>
    /\ choice = None
    /\ user_answer = None
    /\ exc = None
    /\ now = 0
    /\ focus \in {"triage", "loop", "workers"}
    /\ odd = 0
    /\ calls = [a \in AgentNames |-> 0]
    /\ lastCall = NoCall
    /\ hypoNonEmpty = 0
    /\ fdWrites = 0
    /\ loops = 0
    /\ reached = {}

Init ==
    /\ OrchInit
    /\ ToolsIdle
    /\ VitalsIdle

\* one iteration of the triage loop
TriageIteration ==
    /\ pc = "triage"
    /\ \E raw \in ComplaintInputs, out \in TriageOutcomes :
        LET complaint_input == Strip(raw)
            attempts == triage_attempts + 1
        IN  IF complaint_input = <<>>
            THEN /\ triage_attempts' = attempts
                 /\ pc' = IF TriageLoopContinues(triage_complete, attempts)
                          THEN "triage" ELSE "hypothesis"
                 /\ UNCHANGED <<case, complaint, triage_complete, exc, now,
                                calls, lastCall>>
            ELSE LET text == IF Truthy(complaint)
                             THEN complaint.text \o <<" ">> \o complaint_input
                             ELSE complaint_input
                     task == <<"Assess patient complaint: ">> \o text
                     r == InvokeAgent("triage", task, case.action_log, now, out)
                     branch == TriageBranch(r.ret)
                     complete == branch \in {"summary", "accept"}
                 IN  /\ triage_attempts' = attempts
                     /\ complaint' = Str(text)
                     /\ calls' = Bump("triage")
                     /\ lastCall' = CallRecord("triage", task, case.action_log, out, r)
                     /\ now' = r.ts
                     /\ triage_complete' = complete
                     /\ case' = [case EXCEPT
                            !.chief_complaint = text,
                            !.action_log = r.log,
                            !.history_present_illness =
                                CASE branch = "summary" ->
                                        Strip(SplitAfter(r.ret, TRIAGE_SUMMARY))
                                  [] branch = "accept" -> r.ret
                                  [] OTHER -> @]
                     /\ exc' = IF branch = "emergency"
                               THEN Str(Strip(SplitAfter(r.ret, EMERGENCY_ABORT)))
                               ELSE exc
                     /\ pc' = IF branch = "emergency" THEN "except"
                              ELSE IF TriageLoopContinues(complete, attempts)
                              THEN "triage" ELSE "hypothesis"
    /\ UNCHANGED <<i, user_finished, decision, choice, user_answer, focus,
                   odd, hypoNonEmpty, fdWrites, loops, reached>>
    /\ UNCHANGED <<toolVars, vitalVars>>

\* 3. Hypothesis Generation
HypothesisGeneration ==
    /\ pc = "hypothesis"
    /\ \E out \in HypothesisOutcomes :
        LET task == <<"Generate Differential Diagnosis.">>
            r == InvokeAgent("hypothesis", task, case.action_log, now, out)
        IN  /\ case' = [case EXCEPT
                   !.action_log = r.log,
                   !.differential_diagnosis = RecordHypothesis(@, r.ret)]
            /\ now' = r.ts
            /\ calls' = Bump("hypothesis")
            /\ lastCall' = CallRecord("hypothesis", task, case.action_log, out, r)
            /\ hypoNonEmpty' = hypoNonEmpty + NonEmpty(out)
            /\ odd' = Spend(out, Faults)
    /\ i' = 0
    /\ user_finished' = FALSE
    /\ pc' = IF JudgeLoopContinues(0, FALSE) THEN "judge" ELSE "final"
    /\ UNCHANGED <<complaint, triage_complete, triage_attempts, decision,
                   choice, user_answer, exc, focus, fdWrites, loops, reached>>
    /\ UNCHANGED <<toolVars, vitalVars>>

\* the iteration without the break after DIAGNOSIS_FINAL:
JudgeStepNoBreak ==
    /\ pc = "judge"
    /\ \E out \in JudgeOutcomes :
        LET task == <<"Review evidence. Decide next step.">>
            r == InvokeAgent("judge", task, case.action_log, now, out)
            final == Contains(r.ret, DIAGNOSIS_FINAL)
        IN  /\ decision' = r.ret
            /\ case' = [case EXCEPT
                   !.action_log = r.log,
                   !.final_diagnosis =
                       IF final THEN Str(Strip(SplitAfter(r.ret, DIAGNOSIS_FINAL)))
                       ELSE @]
            /\ fdWrites' = IF final THEN fdWrites + 1 ELSE fdWrites
            /\ pc' = "dispatch"
            /\ now' = r.ts
            /\ calls' = Bump("judge")
            /\ lastCall' = CallRecord("judge", task, case.action_log, out, r)
            /\ odd' = Spend(out, JudgeOdd)
    /\ loops' = loops + 1
    /\ UNCHANGED <<complaint, triage_complete, triage_attempts, i,
                   user_finished, choice, user_answer, exc, focus,
                   hypoNonEmpty, reached>>
    /\ UNCHANGED <<toolVars, vitalVars>>

\* the judge loop raising EmergencyAbortException as the triage loop does
JudgeStepAborts ==
    /\ pc = "judge"
    /\ \E out \in JudgeOutcomes :
        LET task == <<"Review evidence. Decide next step.">>
            r == InvokeAgent("judge", task, case.action_log, now, out)
            final == Contains(r.ret, DIAGNOSIS_FINAL)
            abort == Contains(r.ret, EMERGENCY_ABORT)
        IN  /\ decision' = r.ret
            /\ case' = [case EXCEPT
                   !.action_log = r.log,
                   !.final_diagnosis =
                       IF final /\ ~abort
                       THEN Str(Strip(SplitAfter(r.ret, DIAGNOSIS_FINAL)))
                       ELSE @]
            /\ fdWrites' = IF final /\ ~abort THEN fdWrites + 1 ELSE fdWrites
            /\ exc' = IF abort THEN Str(Strip(SplitAfter(r.ret, EMERGENCY_ABORT)))
                      ELSE exc
            /\ pc' = IF abort THEN "except" ELSE IF final THEN "final" ELSE "dispatch"
            /\ now' = r.ts
            /\ calls' = Bump("judge")
            /\ lastCall' = CallRecord("judge", task, case.action_log, out, r)
            /\ odd' = Spend(out, JudgeOdd)
    /\ loops' = loops + 1
    /\ UNCHANGED <<complaint, triage_complete, triage_attempts, i,
                   user_finished, choice, user_answer, focus,
                   hypoNonEmpty, reached>>
    /\ UNCHANGED <<toolVars, vitalVars>>

\* 4. one Judge Loop iteration up to the DIAGNOSIS_FINAL check
JudgeStep ==
    /\ pc = "judge"
    /\ \E out \in JudgeOutcomes :
        LET task == <<"Review evidence. Decide next step.">>
            r == InvokeAgent("judge", task, case.action_log, now, out)
            final == Contains(r.ret, DIAGNOSIS_FINAL)
        IN  /\ decision' = r.ret
            /\ case' = [case EXCEPT
                   !.action_log = r.log,
                   !.final_diagnosis =
                       IF final THEN Str(Strip(SplitAfter(r.ret, DIAGNOSIS_FINAL)))
                       ELSE @]
            /\ fdWrites' = IF final THEN fdWrites + 1 ELSE fdWrites
            /\ pc' = IF final THEN "final" ELSE "dispatch"
            /\ now' = r.ts
            /\ calls' = Bump("judge")
            /\ lastCall' = CallRecord("judge", task, case.action_log, out, r)
            /\ odd' = Spend(out, JudgeOdd)
    /\ loops' = loops + 1
    /\ UNCHANGED <<complaint, triage_complete, triage_attempts, i,
                   user_finished, choice, user_answer, exc, focus,
                   hypoNonEmpty, reached>>
    /\ UNCHANGED <<toolVars, vitalVars>>

\* _dispatch_command(decision, case), then the ASK_PATIENT check
DispatchCommand ==
    /\ pc = "dispatch"
    /\ LET target == DispatchTarget(decision, case.differential_diagnosis)
       IN  IF target.agent = "none"
           THEN UNCHANGED <<case, now, calls, lastCall, odd>>
           ELSE \E out \in SpecialistOutcomes :
                LET r == InvokeAgent(target.agent, target.task, case.action_log, now, out)
                IN  /\ case' = [case EXCEPT !.action_log =
                           add_log(r.log, r.ts, "system", <<target.label>> \o r.ret)]
                    /\ now' = r.ts + 1
                    /\ calls' = Bump(target.agent)
                    /\ lastCall' = CallRecord(target.agent, target.task,
                                              case.action_log, out, r)
                    /\ odd' = Spend(out, Faults)
    /\ pc' = IF Contains(decision, ASK_PATIENT) THEN "ask" ELSE "refine"
    /\ UNCHANGED <<locals, focus, hypoNonEmpty, fdWrites, loops, reached>>
    /\ UNCHANGED <<toolVars, vitalVars>>

\* 4.1 the patient is asked; "1" provides an answer, "2" finishes
\* the interview answer replacing the history instead of extending it
AskPatientOverwrites ==
    /\ pc = "ask"
    /\ \E raw \in ChoiceInputs, answer \in AnswerInputs :
        LET question == Strip(SplitAfter(decision, ASK_PATIENT))
            picked == Strip(raw)
        IN  IF picked \notin {<<"1">>, <<"2">>}
            THEN UNCHANGED <<pc, case, user_finished, choice, user_answer>>
            ELSE /\ pc' = "refine"
                 /\ choice' = Str(picked)
                 /\ user_answer' = IF picked = <<"1">> THEN Str(answer) ELSE user_answer
                 /\ user_finished' = UserFinishes(picked, answer)
                 /\ case' = IF picked = <<"1">> /\ Strip(answer) # <<>>
                            THEN [case EXCEPT !.history_present_illness =
                                    <<"\n[Interview] Q: ">> \o question
                                      \o <<" A: ">> \o answer]
                            ELSE case
    /\ UNCHANGED <<complaint, triage_complete, triage_attempts, i, decision,
                   exc, now, focus, odd, calls, lastCall, hypoNonEmpty,
                   fdWrites, loops, reached>>
    /\ UNCHANGED <<toolVars, vitalVars>>

AskPatient ==
    /\ pc = "ask"
    /\ \E raw \in ChoiceInputs, answer \in AnswerInputs :
        LET question == Strip(SplitAfter(decision, ASK_PATIENT))
            picked == Strip(raw)
        IN  IF picked \notin {<<"1">>, <<"2">>}
            THEN UNCHANGED <<pc, case, user_finished, choice, user_answer>>
            ELSE /\ pc' = "refine"
                 /\ choice' = Str(picked)
                 /\ user_answer' = IF picked = <<"1">> THEN Str(answer) ELSE user_answer
                 /\ user_finished' = UserFinishes(picked, answer)
                 /\ case' = IF picked = <<"1">> /\ Strip(answer) # <<>>
                            THEN [case EXCEPT !.history_present_illness =
                                    @ \o <<"\n[Interview] Q: ">> \o question
                                      \o <<" A: ">> \o answer]
                            ELSE case
    /\ UNCHANGED <<complaint, triage_complete, triage_attempts, i, decision,
                   exc, now, focus, odd, calls, lastCall, hypoNonEmpty,
                   fdWrites, loops, reached>>
    /\ UNCHANGED <<toolVars, vitalVars>>

\* Refine Hypothesis (if not finished), then the head of the next iteration
RefineHypothesis ==
    /\ pc = "refine"
    /\ IF user_finished
       THEN UNCHANGED <<case, now, calls, lastCall, hypoNonEmpty, odd>>
       ELSE \E out \in HypothesisOutcomes :
            LET task == <<"Update Differential based on new evidence.">>
                r == InvokeAgent("hypothesis", task, case.action_log, now, out)
            IN  /\ case' = [case EXCEPT
                       !.action_log = r.log,
                       !.differential_diagnosis = RecordHypothesis(@, r.ret)]
                /\ now' = r.ts
                /\ calls' = Bump("hypothesis")
                /\ lastCall' = CallRecord("hypothesis", task, case.action_log, out, r)
                /\ hypoNonEmpty' = hypoNonEmpty + NonEmpty(out)
                /\ odd' = Spend(out, Faults)
    /\ i' = i + 1
    /\ pc' = IF JudgeLoopContinues(i + 1, user_finished) THEN "judge" ELSE "final"
    /\ UNCHANGED <<complaint, triage_complete, triage_attempts, user_finished,
                   decision, choice, user_answer, exc, focus, fdWrites, loops,
                   reached>>
    /\ UNCHANGED <<toolVars, vitalVars>>

\* 5. Final Report: the forced judge call when no diagnosis yet
Finalization ==
    /\ pc = "final"
    /\ IF Truthy(case.final_diagnosis)
       THEN UNCHANGED <<case, now, calls, lastCall, odd, fdWrites>>
       ELSE \E out \in JudgeOutcomes :
            LET task == <<"Based on all evidence gathered, provide your final diagnosis. Start with ",
                          DIAGNOSIS_FINAL>>
                r == InvokeAgent("judge", task, case.action_log, now, out)
            IN  /\ case' = [case EXCEPT
                       !.action_log = r.log,
                       !.final_diagnosis =
                           IF Contains(r.ret, DIAGNOSIS_FINAL)
                           THEN Str(Strip(SplitAfter(r.ret, DIAGNOSIS_FINAL)))
                           ELSE Str(FinalFallback(case.differential_diagnosis))]
                /\ fdWrites' = fdWrites + 1
                /\ now' = r.ts
                /\ calls' = Bump("judge")
                /\ lastCall' = CallRecord("judge", task, case.action_log, out, r)
                /\ odd' = Spend(out, JudgeOdd)
    /\ pc' = "handoff"
    /\ UNCHANGED <<locals, focus, hypoNonEmpty, loops, reached>>
    /\ UNCHANGED <<toolVars, vitalVars>>

\* the physician handoff, then return case
Handoff ==
    /\ pc = "handoff"
    /\ IF ~Truthy(case.final_diagnosis)
       THEN UNCHANGED <<case, now, calls, lastCall, odd>>
       ELSE \E out \in HandoffOutcomes :
            LET task == <<"Write Physician Handoff for: ">> \o case.final_diagnosis.text
                r == InvokeAgent("research", task, case.action_log, now, out)
            IN  /\ case' = [case EXCEPT
                       !.action_log = r.log,
                       !.research_notes = Append(@, r.ret)]
                /\ now' = r.ts
                /\ calls' = Bump("research")
                /\ lastCall' = CallRecord("research", task, case.action_log, out, r)
                /\ odd' = Spend(out, Faults)
    /\ pc' = "done"
    /\ reached' = reached \cup {"Normal"}
    /\ UNCHANGED <<locals, focus, hypoNonEmpty, fdWrites, loops>>
    /\ UNCHANGED <<toolVars, vitalVars>>

\* the handler returning without storing the message
EmergencyHandlerNoDiagnosis ==
    /\ pc = "except"
    /\ pc' = "done"
    /\ reached' = reached \cup {"Emergency"}
    /\ UNCHANGED <<case, fdWrites, locals, now, focus, odd, calls, lastCall,
                   hypoNonEmpty, loops>>
    /\ UNCHANGED <<toolVars, vitalVars>>

\* the handler falling through to the final report instead of returning
EmergencyHandlerFallsThrough ==
    /\ pc = "except"
    /\ case' = [case EXCEPT !.final_diagnosis = Str(EmergencyMessage(exc.text))]
    /\ fdWrites' = fdWrites + 1
    /\ pc' = "handoff"
    /\ reached' = reached \cup {"Emergency"}
    /\ UNCHANGED <<locals, now, focus, odd, calls, lastCall, hypoNonEmpty, loops>>
    /\ UNCHANGED <<toolVars, vitalVars>>

\* except EmergencyAbortException as e: case.final_diagnosis = str(e); return case
EmergencyHandler ==
    /\ pc = "except"
    /\ case' = [case EXCEPT !.final_diagnosis = Str(EmergencyMessage(exc.text))]
    /\ fdWrites' = fdWrites + 1
    /\ pc' = "done"
    /\ reached' = reached \cup {"Emergency"}
    /\ UNCHANGED <<locals, now, focus, odd, calls, lastCall, hypoNonEmpty, loops>>
    /\ UNCHANGED <<toolVars, vitalVars>>

Next ==
    \/ TriageIteration
    \/ HypothesisGeneration
    \/ JudgeStep
    \/ DispatchCommand
    \/ AskPatient
    \/ RefineHypothesis
    \/ Finalization
    \/ Handoff
    \/ EmergencyHandler

Spec == Init /\ [][Next]_vars

----------------------------------------------------------------------------
(* The tools of the root agent (src/medagent/tools.py), called by the model *)
(* in any order on one session state                                        *)

\* diagnostic_loop_count values explored
MaxLoopCount == 3

\* the one patient of the session
PatientId == <<"P1">>
PatientKey(prefix) ==
    CASE prefix = "patient_data_"        -> "patient_data_P1"
      [] prefix = "patient_lab_results_" -> "patient_lab_results_P1"
      [] prefix = "patient_file_"        -> "patient_file_P1_CT"

\* what store_patient_data is called with
StoreInputs ==
    {<<"patient_id", PyStr(PatientId)>>, <<"patient_id", PyStr(<<>>)>>,
     <<"chief_complaint", PyStr(<<"chest pain">>)>>}
\* what finalize_diagnosis is called with
DiagnosisInputs == {<<"NSTEMI">>}
\* what check_emergency_status is called with
TriageOutputs == {TriageEmergency.text, TriageSummary.text}

\* what the database can hold for the patient when the session starts:
\* storing lab results or a file creates the patient_data row too
Databases ==
    {d \in [row : BOOLEAN, question : BOOLEAN, lab : BOOLEAN, files : BOOLEAN] :
        (d.question \/ d.lab \/ d.files) => d.row}

\* tool_context.tool_confirmation: None until the user has answered a
\* request_confirmation, then the payload of the answer
NoConfirmation == [given |-> FALSE, text |-> <<>>, user_response |-> ""]
Confirmations ==
    {NoConfirmation,
     [given |-> TRUE, text |-> <<"WBC 12">>, user_response |-> "done"],
     [given |-> TRUE, text |-> <<"WBC 12">>, user_response |-> ""]}

QueryTypes == {"data", "file", "lab_results"}
ItemTypes == {PyNone, PyStr(<<"CT">>)}

ToolInit ==
    /\ OrchInit
    /\ focus = "loop"
    /\ state = EmptyDict
    /\ db \in Databases
    /\ call = NoToolCall
    /\ result = NoResult
    /\ VitalsIdle

\* store_patient_data starting from a fresh dict
store_patient_data_resets ==
    /\ \E in \in StoreInputs :
        LET field == in[1]
            value == in[2]
        IN  /\ state' = Put(EmptyDict, field, value)
            /\ call' = ToolCall("store_patient_data", field, value, FALSE)
            /\ result' = Returns(<<"Successfully stored ", field, " in patient record">>)
    /\ UNCHANGED <<db, orchVars, vitalVars>>

\* store_patient_data(field, value, tool_context)
store_patient_data ==
    /\ \E in \in StoreInputs :
        LET field == in[1]
            value == in[2]
        IN  /\ state' = Put(state, field, value)
            /\ call' = ToolCall("store_patient_data", field, value, FALSE)
            /\ result' = Returns(<<"Successfully stored ", field, " in patient record">>)
    /\ UNCHANGED <<db, orchVars, vitalVars>>

\* finalize_diagnosis(final_diagnosis, tool_context)
finalize_diagnosis ==
    /\ \E final_diagnosis \in DiagnosisInputs :
        /\ state' = Put(Put(state, "final_diagnosis", PyStr(final_diagnosis)),
                        "case_complete", PyBool(TRUE))
        /\ call' = ToolCall("finalize_diagnosis", "", PyStr(final_diagnosis), FALSE)
        /\ result' = Returns(<<"Final diagnosis recorded and case marked complete">>)
    /\ UNCHANGED <<db, orchVars, vitalVars>>

\* increment_diagnostic_loop(tool_context)
increment_diagnostic_loop ==
    /\ Get(state, "diagnostic_loop_count", PyInt(0)).n < MaxLoopCount
    /\ LET current == Get(state, "diagnostic_loop_count", PyInt(0)).n + 1
       IN  /\ state' = Put(state, "diagnostic_loop_count", PyInt(current))
           /\ call' = ToolCall("increment_diagnostic_loop", "", PyNone, FALSE)
           /\ result' = Returns(<<"Diagnostic loop iteration ", ToString(current)>>)
    /\ UNCHANGED <<db, orchVars, vitalVars>>

\* check_emergency_status(triage_output, tool_context)
check_emergency_status ==
    /\ \E triage_output \in TriageOutputs :
        /\ call' = ToolCall("check_emergency_status", "", PyStr(triage_output), FALSE)
        /\ IF Contains(triage_output, EMERGENCY_ABORT)
           THEN LET emergency_msg == Strip(SplitAfter(triage_output, EMERGENCY_ABORT))
                IN  /\ state' = Put(Put(state, "final_diagnosis",
                                        PyStr(<<"EMERGENCY: ">> \o emergency_msg)),
                                    "is_emergency", PyBool(TRUE))
                    /\ result' = Returns(<<"EMERGENCY_DETECTED: ">> \o emergency_msg)
           ELSE /\ state' = state
                /\ result' = Returns(<<"NO_EMERGENCY">>)
    /\ UNCHANGED <<db, orchVars, vitalVars>>

\* tool_context.request_confirmation(...) was called before the call ended
AfterRequest(r) == [r EXCEPT !.requested = TRUE]

\* access_patient_database(query_type, tool_context, item_type): what the call
\* does to the session state and the database, and how it ends
AccessPatientDatabase(query_type, item_type, tool_confirmation, artifacts) ==
    LET patient_id == Get(state, "patient_id", PyNone)
        same(r) == [state |-> state, db |-> db, result |-> r]
    IN  IF ~PyTruthy(patient_id)
        THEN same(Returns(<<"Error: patient_id not found in session state.">>))
        ELSE IF ~db.row
        \* store_patient_data_in_db(patient_id=..., question=...): the function
        \* has no parameter `question` and requires `description`
        THEN same(Raises("TypeError"))
        ELSE IF query_type = "data"
        THEN IF db.question
             THEN [state  |-> Put(state, PatientKey("patient_data_"),
                                  PyStr(<<"patient_info">>)),
                   db     |-> db,
                   result |-> Returns(<<"Patient Data for ">> \o patient_id.s)]
             ELSE IF ~tool_confirmation.given
             \* tool_confirmation.payload with tool_confirmation = None
             THEN same(AfterRequest(Raises("AttributeError")))
             ELSE same(Raises("TypeError"))
        ELSE IF query_type = "lab_results"
        THEN IF db.lab
             THEN [state  |-> Put(state, PatientKey("patient_lab_results_"),
                                  PyStr(<<"lab results on file">>)),
                   db     |-> db,
                   result |-> Returns(<<"Patient ">> \o patient_id.s
                                        \o <<" Lab Results: ", "lab results on file">>)]
             ELSE IF ~tool_confirmation.given
             THEN same(AfterRequest(Returns(<<"Error: No lab results provided.">>)))
             ELSE [state  |-> Put(state, PatientKey("patient_lab_results_"),
                                  PyStr(tool_confirmation.text)),
                   db     |-> [db EXCEPT !.lab = TRUE],
                   result |-> Returns(<<"Patient ">> \o patient_id.s
                                        \o <<" lab results stored: ">>
                                        \o tool_confirmation.text)]
        ELSE IF ~PyTruthy(item_type)
        THEN same(Returns(<<"Error: item_type is required for query_type 'file'.">>))
        ELSE IF db.files
        THEN [state  |-> Put(state, PatientKey("patient_file_"), PyStr(<<"file_info">>)),
              db     |-> db,
              result |-> Returns(<<"Found files of type ">> \o item_type.s)]
        ELSE IF ~tool_confirmation.given
        THEN same(AfterRequest(Raises("AttributeError")))
        ELSE IF tool_confirmation.user_response # "done"
        THEN same(Returns(<<"File upload cancelled by user.">>))
        ELSE IF ~artifacts
        THEN same(Returns(<<"No file uploaded. Please upload a file and try again.">>))
        ELSE [state  |-> Put(state, PatientKey("patient_file_"), PyStr(<<"file_info">>)),
              db     |-> [db EXCEPT !.files = TRUE],
              result |-> Returns(item_type.s \o <<" file uploaded and stored.">>)]

access_patient_database ==
    /\ \E query_type \in QueryTypes, item_type \in ItemTypes,
          tool_confirmation \in Confirmations, artifacts \in BOOLEAN :
        LET r == AccessPatientDatabase(query_type, item_type, tool_confirmation, artifacts)
        IN  /\ state' = r.state
            /\ db' = r.db
            /\ result' = r.result
            /\ call' = ToolCall("access_patient_database", query_type, item_type,
                                tool_confirmation.given)
    /\ UNCHANGED <<orchVars, vitalVars>>

ToolNext ==
    \/ store_patient_data
    \/ finalize_diagnosis
    \/ increment_diagnostic_loop
    \/ check_emergency_status
    \/ access_patient_database

ToolSpec == ToolInit /\ [][ToolNext]_vars

----------------------------------------------------------------------------
(* Vitals (src/src/domain/models.py) *)

\* values offered to the constructor; spo2 is a float, counted in tenths of a
\* percent (899 is 89.9)
HrInputs   == {NoValue, Value(0), Value(39), Value(40), Value(120), Value(121),
               Value(300), Value(301)}
Spo2Inputs == {NoValue, Value(0), Value(899), Value(900), Value(1000), Value(1001)}
BpInputs   == {NoValue, Value(0), Value(89), Value(90), Value(300), Value(301)}

\* Field(None, ge=lo, le=hi)
Accepted(x, lo, hi) == x.isNone \/ (lo <= x.n /\ x.n <= hi)

\* bool(x) of an Optional number
Recorded(x) == ~x.isNone /\ x.n # 0

\* Vitals.is_stable
is_stable(v) ==
    IF Recorded(v.hr) /\ (v.hr.n > 120 \/ v.hr.n < 40) THEN FALSE
    ELSE IF Recorded(v.spo2) /\ v.spo2.n < 900 THEN FALSE
    ELSE IF Recorded(v.bp_systolic) /\ v.bp_systolic.n < 90 THEN FALSE
    ELSE TRUE

VitalsInit ==
    /\ OrchInit
    /\ focus = "loop"
    /\ ToolsIdle
    /\ VitalsIdle

\* Vitals(bp_systolic=..., hr=..., spo2=...) passes validation, then
\* is_stable is read
AssessVitals ==
    /\ \E hr \in HrInputs, spo2 \in Spo2Inputs, bp \in BpInputs :
        /\ Accepted(hr, 0, 300)
        /\ Accepted(spo2, 0, 1000)
        /\ Accepted(bp, 0, 300)
        /\ vitals' = [bp_systolic |-> bp, hr |-> hr, spo2 |-> spo2]
        /\ stable' = is_stable(vitals')
    /\ UNCHANGED <<orchVars, toolVars>>

VitalsNext == AssessVitals

VitalsSpec == VitalsInit /\ [][VitalsNext]_vars

\* The coroutine runs on whenever an await returns, and the patient's inputs
\* are eventually valid: some step that changes the state is eventually taken.
FairSpec == Spec /\ WF_vars(Next)

----------------------------------------------------------------------------
(* Properties *)

IsPrefix(s, t) == Len(s) <= Len(t) /\ SubSeq(t, 1, Len(s)) = s

\* the forced judge call of the final report was the last invocation
ForcedJudgeCall ==
    /\ lastCall.agent = "judge"
    /\ lastCall.task # <<>>
    /\ lastCall.task[Len(lastCall.task)] = DIAGNOSIS_FINAL

\* some triage response in the audit trail carries EMERGENCY_ABORT:
AbortSeen ==
    \E k \in 1..Len(case.action_log) :
        /\ case.action_log[k].agent = "TRIAGE"
        /\ Contains(case.action_log[k].action, EMERGENCY_ABORT)

\* triage was invoked five times and answered CLARIFY_COMPLAINT: each time
FiveClarifications ==
    /\ calls["triage"] = 5
    /\ Len(case.action_log) >= 5
    /\ \A k \in 1..5 :
        /\ case.action_log[k].agent = "TRIAGE"
        /\ Contains(case.action_log[k].action, CLARIFY_COMPLAINT)
        /\ ~Contains(case.action_log[k].action, EMERGENCY_ABORT)

\* C1: the Judge Loop starts at most MAX_LOOPS iterations (in-loop judge
\* invocations) in a session, whatever the judge answers and the patient types.
C1_JudgeLoopBounded == loops <= MAX_LOOPS

C1_Witness == pc = "final" /\ loops = MAX_LOOPS /\ ~Truthy(case.final_diagnosis)

\* C2 (as stated): after a triage response with EMERGENCY_ABORT: <reason> the
\* session has ended with final_diagnosis = "EMERGENCY: " + trimmed reason.
C2_AsStated ==
    (pc = "done" /\ lastCall.agent = "triage" /\ lastCall.out = TriageEmergency)
        => /\ reached = {"Emergency"}
           /\ case.final_diagnosis = Str(<<"EMERGENCY: ", "crushing chest pain">>)

\* C2 (amended): after a triage response with EMERGENCY_ABORT: <reason> the
\* session ends in Terminated(Emergency) with final_diagnosis equal to
\* "EMERGENCY PROTOCOL ACTIVATED: " followed by the trimmed reason.
C2_EmergencyDiagnosis ==
    /\ (pc = "done" /\ lastCall.agent = "triage" /\ lastCall.out = TriageEmergency)
        => /\ reached = {"Emergency"}
           /\ case.final_diagnosis =
                Str(<<"EMERGENCY PROTOCOL ACTIVATED: ", "crushing chest pain">>)
    /\ (pc = "done" /\ AbortSeen)
        => /\ reached = {"Emergency"}
           /\ lastCall.agent = "triage"
           /\ case.final_diagnosis =
                Str(<<"EMERGENCY PROTOCOL ACTIVATED: ">>
                    \o Strip(SplitAfter(lastCall.out.text, EMERGENCY_ABORT)))

C2_Witness ==
    /\ pc = "done"
    /\ lastCall.out = TriageEmergency
    /\ reached = {"Emergency"}

\* C3: once a triage response carried EMERGENCY_ABORT:, no worker is invoked
\* any more, research_notes gets no entry, and the session goes straight to
\* its terminal state, Terminated(Emergency).
C3_AbortSkipsAllPhases ==
    [][ /\ AbortSeen' => /\ pc' \in {"except", "done"}
                         /\ pc' = "done" => reached' = {"Emergency"}
        /\ AbortSeen => /\ calls' = calls
                        /\ case'.research_notes = case.research_notes
                        /\ case'.research_notes = <<>> ]_vars

C3_Witness ==
    /\ pc = "done"
    /\ AbortSeen
    /\ calls["triage"] = 3
    /\ \A a \in AgentNames \ {"triage"} : calls[a] = 0

\* C4: after five consecutive CLARIFY_COMPLAINT: answers (each on a non-empty
\* input) the controller has left the triage loop without raising, the
\* accumulated chief_complaint is kept, the hypothesis worker is next (or has
\* been invoked), and triage is never invoked a sixth time.
C4_TriageGivesUp ==
    /\ calls["triage"] <= max_triage_attempts
    /\ FiveClarifications =>
        /\ pc \notin {"triage", "except"}
        /\ "Emergency" \notin reached
        /\ ~triage_complete
        /\ case.chief_complaint =
             <<"chest pain", " ", "chest pain", " ", "chest pain", " ",
               "chest pain", " ", "chest pain">>
        /\ pc = "hypothesis" \/ calls["hypothesis"] >= 1

C4_Witness == FiveClarifications /\ calls["hypothesis"] = 1 /\ pc = "judge"

\* C5: when the forced judge call of the final report returns text without
\* DIAGNOSIS_FINAL:, final_diagnosis is the last differential_diagnosis entry
\* verbatim, or "Inconclusive - Referral Required" when there is none.
C5_FinalFallback ==
    (pc = "handoff" /\ ForcedJudgeCall /\ ~Contains(lastCall.ret, DIAGNOSIS_FINAL))
        => case.final_diagnosis =
             IF Len(case.differential_diagnosis) > 0
             THEN Str(case.differential_diagnosis[Len(case.differential_diagnosis)])
             ELSE Str(<<"Inconclusive - Referral Required">>)

C5_Witness ==
    /\ pc = "handoff"
    /\ ForcedJudgeCall
    /\ lastCall.out = JudgeFreeText
    /\ loops = MAX_LOOPS
    /\ Len(case.differential_diagnosis) = 4
    /\ case.final_diagnosis = Str(<<"1. NSTEMI">>)

\* C6: at most one terminal state is reached in a session, and after a
\* terminal state is reached no field of the Case changes.
C6_OneTerminalState ==
    [][ /\ Cardinality(reached') <= 1
        /\ reached # {} => case' = case ]_vars

C6_Witness ==
    /\ pc = "done"
    /\ reached = {"Normal"}
    /\ Len(case.research_notes) = 1
    /\ fdWrites = 1

\* C7: final_diagnosis is assigned at most once in a run, for every sequence
\* of worker responses.
C7_AssignedAtMostOnce == fdWrites <= 1

\* C8: action_log only grows: every step leaves the previous action_log as a
\* prefix of the new one.
C8_ActionLogAppendOnly ==
    [][IsPrefix(case.action_log, case'.action_log)]_vars

C8_Witness ==
    /\ Len(case.action_log) >= 6
    /\ \E k \in 1..Len(case.action_log) : case.action_log[k].agent = "SYSTEM"

\* C9: an _invoke_agent call that returns a non-empty worker response has
\* appended exactly one action_log entry with the worker's name and the
\* response text, and the entry stays whatever the caller does next.
C9_InvocationAudited ==
    (lastCall.agent # "none" /\ lastCall.out.kind = "text" /\ lastCall.out.text # <<>>)
        => /\ lastCall.ret = lastCall.out.text
           /\ Len(lastCall.log_after) = Len(lastCall.log_before) + 1
           /\ IsPrefix(lastCall.log_before, lastCall.log_after)
           /\ lastCall.log_after[Len(lastCall.log_after)].agent = Upper(lastCall.agent)
           /\ lastCall.log_after[Len(lastCall.log_after)].action = lastCall.out.text
           /\ IsPrefix(lastCall.log_after, case.action_log)

C9_Witness ==
    /\ lastCall.agent = "evidence"
    /\ lastCall.out = SpecialistText
    /\ Len(case.action_log) = Len(lastCall.log_after) + 1
    /\ pc = "refine"

\* C10 (as stated): the length of differential_diagnosis equals the number of
\* hypothesis invocations that returned a non-empty result.
C10_AsStated == Len(case.differential_diagnosis) = hypoNonEmpty

\* C10 (amended): the length of differential_diagnosis equals the number of
\* hypothesis invocations made so far, whatever they returned.
C10_SnapshotPerInvocation ==
    Len(case.differential_diagnosis) = calls["hypothesis"]

C10_Witness ==
    /\ Len(case.differential_diagnosis) = 3
    /\ calls["hypothesis"] = 3
    /\ hypoNonEmpty = 2
    /\ case.differential_diagnosis[3] = NoResponse

DispatchMarkers == {ORDER_LAB, ORDER_IMAGING, CONSULT_LITERATURE}
JudgeMarkers == DispatchMarkers \cup {ASK_PATIENT, DIAGNOSIS_FINAL}

\* m is the only dispatch marker of the response
OnlyDispatchMarker(dec, m) ==
    Contains(dec, m) /\ \A n \in DispatchMarkers \ {m} : ~Contains(dec, n)

\* the text t occurs in s
Carries(s, t) == \E k \in 1..(Len(s) + 1 - Len(t)) : SubSeq(s, k, k + Len(t) - 1) = t

SystemCount(log) == Cardinality({k \in 1..Len(log) : log[k].agent = "SYSTEM"})

\* this step invokes worker a once, with the argument of marker m in the task,
\* and appends one system entry labelled l that carries the result
DispatchedOnce(m, a, l) ==
    /\ calls' = [calls EXCEPT ![a] = @ + 1]
    /\ lastCall'.agent = a
    /\ Carries(lastCall'.task, Strip(SplitAfter(decision, m)))
    /\ lastCall'.log_before = case.action_log
    /\ SystemCount(case'.action_log) = SystemCount(case.action_log) + 1
    /\ Len(case'.action_log) = Len(lastCall'.log_after) + 1
    /\ case'.action_log[Len(case'.action_log)].agent = "SYSTEM"
    /\ case'.action_log[Len(case'.action_log)].action = <<l>> \o lastCall'.ret

\* C11: dispatching a judge response with ORDER_LAB: <test> invokes the
\* evidence worker exactly once with <test> in its task and appends exactly
\* one system entry "Lab Result Received: ..."; likewise a response whose
\* dispatch marker is ORDER_IMAGING: (imaging worker) or CONSULT_LITERATURE:
\* (research worker).
C11_DispatchOnce ==
    [][ pc = "dispatch" =>
          /\ Contains(decision, ORDER_LAB) =>
                DispatchedOnce(ORDER_LAB, "evidence", "Lab Result Received: ")
          /\ decision = JudgeLab.text =>
                lastCall'.task = <<"Order ", "Troponin", " with context='">>
                                 \o Context(case.differential_diagnosis) \o <<"'">>
          /\ OnlyDispatchMarker(decision, ORDER_IMAGING) =>
                DispatchedOnce(ORDER_IMAGING, "imaging", "Imaging Report Received: ")
          /\ OnlyDispatchMarker(decision, CONSULT_LITERATURE) =>
                DispatchedOnce(CONSULT_LITERATURE, "research", "Research Finding: ")
      ]_vars

C11_Witness ==
    /\ pc = "refine"
    /\ decision = JudgeLab.text
    /\ lastCall.agent = "evidence"
    /\ lastCall.task = <<"Order ", "Troponin", " with context='", "1. GERD 2. ACS", "'">>
    /\ case.action_log[Len(case.action_log)] =
         [ts |-> now - 1, agent |-> "SYSTEM",
          action |-> <<"Lab Result Received: ", "result: elevated">>]

HasMarker(dec) == \E m \in JudgeMarkers : Contains(dec, m)

\* the recognized marker that occurs first in the response
FirstMarker(dec) == dec[Least({k \in 1..Len(dec) : dec[k] \in JudgeMarkers})]

\* the worker _dispatch_command's if-chain routes the response to
ChainAgent(dec) ==
    IF Contains(dec, ORDER_LAB) THEN "evidence"
    ELSE IF Contains(dec, ORDER_IMAGING) THEN "imaging"
    ELSE IF Contains(dec, CONSULT_LITERATURE) THEN "research"
    ELSE "judge"

C13_OneActionPerResponse == pc = "ask" => lastCall.agent = "judge"

\* C14: a loop response with DIAGNOSIS_FINAL: sets final_diagnosis to the
\* trimmed text after the marker and ends the loop in that iteration: no
\* dispatch, no hypothesis refinement, no later loop iteration.
C14_FinalEndsLoop ==
    [][ /\ (pc = "judge" /\ Contains(decision', DIAGNOSIS_FINAL))
            => /\ pc' = "final"
               /\ case'.final_diagnosis =
                    Str(Strip(SplitAfter(decision', DIAGNOSIS_FINAL)))
               /\ decision' = JudgeFinal.text
                    => case'.final_diagnosis = Str(<<"NSTEMI">>)
        /\ (loops >= 1 /\ Contains(decision, DIAGNOSIS_FINAL))
            => /\ loops' = loops
               /\ pc' \notin {"judge", "dispatch", "ask", "refine"}
               /\ \A a \in {"hypothesis", "evidence", "imaging"} : calls'[a] = calls[a]
               /\ calls'["research"] # calls["research"] => pc = "handoff"
               /\ SystemCount(case'.action_log) = SystemCount(case.action_log)
      ]_vars

C14_Witness ==
    /\ pc = "done"
    /\ decision = JudgeFinal.text
    /\ case.final_diagnosis = Str(<<"NSTEMI">>)
    /\ loops = 2
    /\ calls["hypothesis"] = 2
    /\ calls["judge"] = 2

\* C15 (as stated): after ASK_PATIENT the loop is left early only when the
\* patient chooses "2" (finish now); choice "1" never ends it.
C15_AsStated == user_finished => choice = Str(<<"2">>)

\* C15 (amended): after ASK_PATIENT the loop is left early when the patient
\* chooses "2", or chooses "1" and then types an empty or blank answer; it is
\* never left early otherwise (except by DIAGNOSIS_FINAL:).
C15_ExplicitOrEmptyAnswer ==
    /\ user_finished =>
         /\ Contains(decision, ASK_PATIENT)
         /\ \/ choice = Str(<<"2">>)
            \/ /\ choice = Str(<<"1">>)
               /\ ~user_answer.isNone
               /\ Strip(user_answer.text) = <<>>
    /\ (pc = "final" /\ i < MAX_LOOPS)
         => user_finished \/ Contains(decision, DIAGNOSIS_FINAL)

C15_Witness ==
    /\ pc = "final"
    /\ user_finished
    /\ choice = Str(<<"1">>)
    /\ user_answer = Str(<<" ">>)
    /\ loops = 1

\* C16: a loop response without any recognized marker invokes no evidence,
\* imaging or research worker and adds no system entry; the hypothesis worker
\* is invoked again and the loop goes on to its next iteration, or to the
\* final report after MAX_LOOPS iterations.
C16_UnrecognizedContinues ==
    [][ /\ (pc = "dispatch" /\ ~HasMarker(decision))
            => /\ calls' = calls
               /\ case' = case
               /\ pc' = "refine"
        /\ (pc = "refine" /\ ~HasMarker(decision))
            => /\ calls' = [calls EXCEPT !["hypothesis"] = @ + 1]
               /\ Len(case'.differential_diagnosis) = Len(case.differential_diagnosis) + 1
               /\ SystemCount(case'.action_log) = SystemCount(case.action_log)
               /\ i' = i + 1
               /\ pc' = IF i + 1 < MAX_LOOPS THEN "judge" ELSE "final"
      ]_vars

C16_Witness ==
    /\ pc = "judge"
    /\ decision = JudgeFreeText.text
    /\ loops = 2
    /\ i = 2
    /\ calls = [a \in AgentNames |->
                  CASE a = "triage" -> 1 [] a = "hypothesis" -> 3
                    [] a = "judge" -> 2 [] OTHER -> 0]
    /\ SystemCount(case.action_log) = 0

\* C17: for every sequence of worker outcomes, with patient inputs that are
\* eventually valid, the run returns; the Case returned has final_diagnosis
\* assigned; and exhausting the triage bound or the loop bound leads on to the
\* next phase (hypothesis, final report) instead of raising.
C17_Terminates ==
    /\ <>(pc = "done")
    /\ [](pc = "done" =>
            /\ ~case.final_diagnosis.isNone
            /\ reached \in {{"Normal"}, {"Emergency"}}
            /\ reached = {"Normal"} => fdWrites >= 1 /\ calls["hypothesis"] >= 1)
    /\ [][ /\ (pc = "triage" /\ triage_attempts + 1 = max_triage_attempts)
               => pc' \in {"hypothesis", "except"}
           /\ (pc = "refine" /\ i + 1 = MAX_LOOPS) => pc' = "final"
           /\ pc = "final" => pc' = "handoff"
           /\ pc = "handoff" => pc' = "done" ]_vars

C17_Witness ==
    /\ pc = "done"
    /\ reached = {"Normal"}
    /\ triage_attempts = max_triage_attempts
    /\ ~triage_complete
    /\ loops = MAX_LOOPS
    /\ ~case.final_diagnosis.isNone

\* the entries appended since the last invocation started
SinceLastCall ==
    {k \in 1..Len(case.action_log) : k > Len(lastCall.log_before)}

DispatchLabels ==
    {"Lab Result Received: ", "Imaging Report Received: ", "Research Finding: "}

\* the last invocation was made by _dispatch_command
DispatchedCall ==
    /\ lastCall.agent \in {"evidence", "imaging", "research"}
    /\ lastCall.task = <<>> \/ lastCall.task[1] # "Write Physician Handoff for: "

C19_AsStated ==
    (lastCall.agent # "none" /\ lastCall.out.kind = "text"
       /\ Strip(lastCall.out.text) = <<>>)
        => /\ lastCall.ret = NoResponse
           /\ lastCall.log_after = lastCall.log_before

\* C19 (amended): only the empty response is an EmptyResponse (no audit entry,
\* "ERROR: No response from agent." returned, session continues); a response
\* of whitespace only is audited and returned like any other text.
C19_OnlyEmptyIsEmpty ==
    (lastCall.agent # "none" /\ lastCall.out.kind = "text"
       /\ Strip(lastCall.out.text) = <<>>)
        => /\ pc # "except"
           /\ IF lastCall.out.text = <<>>
              THEN /\ lastCall.ret = <<"ERROR: No response from agent.">>
                   /\ lastCall.log_after = lastCall.log_before
              ELSE /\ lastCall.ret = lastCall.out.text
                   /\ Len(lastCall.log_after) = Len(lastCall.log_before) + 1
                   /\ lastCall.log_after[Len(lastCall.log_after)].agent
                        = Upper(lastCall.agent)
                   /\ lastCall.log_after[Len(lastCall.log_after)].action
                        = lastCall.out.text

C19_Witness ==
    /\ lastCall.agent = "judge"
    /\ lastCall.out = BlankResponse
    /\ decision = <<" ">>
    /\ case.action_log[Len(case.action_log)].agent = "JUDGE"
    /\ case.action_log[Len(case.action_log)].action = <<" ">>
    /\ pc = "dispatch"

\* C20: every session that ends in Terminated(Normal) has invoked the research
\* worker for the report exactly once during Finalization and has exactly one
\* entry in research_notes; CONSULT_LITERATURE invocations add none.
C20_OneHandoffReport ==
    /\ (pc = "done" /\ reached = {"Normal"})
        => /\ Len(case.research_notes) = 1
           /\ lastCall.agent = "research"
           /\ lastCall.task[1] = "Write Physician Handoff for: "
           /\ case.research_notes[1] = lastCall.ret
    /\ pc # "done" => case.research_notes = <<>>

\* C21: history_present_illness is append-only over the whole session: every
\* change leaves the previous value as a prefix of the new value.  Triage
\* writes it once, while it is still empty; an interview answer extends it.
C21_HistoryAppendOnly ==
    [][ /\ IsPrefix(case.history_present_illness, case'.history_present_illness)
        /\ (pc = "triage"
              /\ case'.history_present_illness # case.history_present_illness)
            => /\ case.history_present_illness = <<>>
               /\ triage_complete' /\ pc' = "hypothesis"
        /\ (pc = "ask"
              /\ case'.history_present_illness # case.history_present_illness)
            => case'.history_present_illness
                 = case.history_present_illness
                     \o <<"\n[Interview] Q: ">>
                     \o Strip(SplitAfter(decision, ASK_PATIENT))
                     \o <<" A: ">> \o user_answer'.text ]_vars

C21_Witness ==
    /\ pc = "refine"
    /\ IsPrefix(<<"chest pain for two days", "\n[Interview] Q: ">>,
                case.history_present_illness)
    /\ Len(case.history_present_illness) > 6

\* C26: phases run in strict order: the hypothesis worker is invoked only after
\* the triage worker has been invoked at least once on a non-empty chief
\* complaint, whatever the patient types during triage.
C26_TriageBeforeHypothesis ==
    calls["hypothesis"] >= 1
        => /\ calls["triage"] >= 1
           /\ case.chief_complaint # <<>>

\* a judge response carrying EMERGENCY_ABORT: is in the audit log
JudgeAbortSeen ==
    \E k \in 1..Len(case.action_log) :
        /\ case.action_log[k].agent = "JUDGE"
        /\ Contains(case.action_log[k].action, EMERGENCY_ABORT)

\* C28: emergency termination can only happen during triage: once the
\* hypothesis worker has been invoked the exception is never raised and the
\* session can only end in Terminated(Normal), also when the judge answers
\* with EMERGENCY_ABORT:.
C28_EmergencyOnlyInTriage ==
    /\ calls["hypothesis"] >= 1
        => /\ pc # "except"
           /\ exc = None
           /\ "Emergency" \notin reached
           /\ pc = "done" => reached = {"Normal"}
    /\ pc = "except" => lastCall.agent = "triage"

C28_Witness ==
    /\ pc = "done"
    /\ reached = {"Normal"}
    /\ JudgeAbortSeen
    /\ Len(case.research_notes) = 1

\* the triage responses in the audit log that carry all the markers of ms
TriageEntries(ms) ==
    {k \in 1..Len(case.action_log) :
        /\ case.action_log[k].agent = "TRIAGE"
        /\ \A m \in ms : Contains(case.action_log[k].action, m)}

\* C29: a triage response that contains EMERGENCY_ABORT: anywhere leads to
\* emergency termination whatever other markers it holds and wherever they
\* stand; a response with CLARIFY_COMPLAINT: and TRIAGE_SUMMARY: (and no
\* EMERGENCY_ABORT:) is a clarification request: triage is not complete and
\* history_present_illness is not written.
C29_TriagePriority ==
    [][ /\ (pc = "triage" /\ calls' # calls
              /\ Contains(lastCall'.ret, EMERGENCY_ABORT))
            => /\ pc' = "except"
               /\ exc' = Str(Strip(SplitAfter(lastCall'.ret, EMERGENCY_ABORT)))
               /\ case'.history_present_illness = case.history_present_illness
        /\ pc = "except" => pc' = "done" /\ reached' = {"Emergency"}
        /\ (pc = "triage" /\ calls' # calls
              /\ ~Contains(lastCall'.ret, EMERGENCY_ABORT)
              /\ Contains(lastCall'.ret, CLARIFY_COMPLAINT)
              /\ Contains(lastCall'.ret, TRIAGE_SUMMARY))
            => /\ ~triage_complete'
               /\ case'.history_present_illness = case.history_present_illness
               /\ pc' = IF triage_attempts' < max_triage_attempts
                        THEN "triage" ELSE "hypothesis" ]_vars

C29_Witness ==
    /\ pc = "done"
    /\ reached = {"Emergency"}
    /\ lastCall.ret[1] = TRIAGE_SUMMARY
    /\ Contains(lastCall.ret, EMERGENCY_ABORT)
    /\ \E k \in TriageEntries({CLARIFY_COMPLAINT, TRIAGE_SUMMARY}) :
          case.action_log[k].action[1] = TRIAGE_SUMMARY
    /\ \E k \in TriageEntries({CLARIFY_COMPLAINT, TRIAGE_SUMMARY}) :
          case.action_log[k].action[1] = CLARIFY_COMPLAINT
    /\ case.history_present_illness = <<>>

\* invocations made by _dispatch_command: all specialist invocations but the
\* handoff report
Dispatched ==
    calls["evidence"] + calls["imaging"] + calls["research"]
        - Len(case.research_notes)

C22_FinalMeansComplete ==
    "final_diagnosis" \in DOMAIN state
        => Get(state, "case_complete", PyBool(FALSE)) = PyBool(TRUE)

\* C23: once final_diagnosis has been set, a call to increment_diagnostic_loop
\* does not advance diagnostic_loop_count.
C23_CounterStopsAfterFinal ==
    [][ ("final_diagnosis" \in DOMAIN state
           /\ call'.tool = "increment_diagnostic_loop")
          => Get(state', "diagnostic_loop_count", PyInt(0))
               = Get(state, "diagnostic_loop_count", PyInt(0)) ]_vars

\* C24: store_patient_data(field, value) sets exactly state[field] = value,
\* leaves every other key of the session state unchanged (one key on an empty
\* state), and returns the confirmation message naming the field.
C24_StoreSetsOneKey ==
    [][ call'.tool = "store_patient_data"
          => /\ DOMAIN state' = DOMAIN state \cup {call'.key}
             /\ state'[call'.key] = call'.arg
             /\ \A k \in DOMAIN state \ {call'.key} : state'[k] = state[k]
             /\ state = EmptyDict => Cardinality(DOMAIN state') = 1
             /\ db' = db
             /\ result' = Returns(<<"Successfully stored ", call'.key,
                                    " in patient record">>) ]_vars

C24_Witness ==
    /\ call.tool = "store_patient_data"
    /\ call.key = "chief_complaint"
    /\ DOMAIN state = {"chief_complaint", "patient_id", "final_diagnosis",
                       "case_complete", "diagnostic_loop_count"}
    /\ state["chief_complaint"] = PyStr(<<"chest pain">>)
    /\ state["diagnostic_loop_count"] = PyInt(2)

\* the database has nothing to answer the query with
Missing(query_type) ==
    CASE query_type = "data"        -> ~db.row \/ ~db.question
      [] query_type = "lab_results" -> ~db.lab
      [] query_type = "file"        -> ~db.files

\* C27: when the data asked for is missing from the database and no
\* confirmation has been supplied yet, access_patient_database requests a
\* confirmation and returns a message instead of failing, for each query_type;
\* when patient_id is absent from state it returns an error message.
C27_AsksInsteadOfFailing ==
    call.tool = "access_patient_database"
        => IF ~PyTruthy(Get(state, "patient_id", PyNone))
           THEN result = Returns(<<"Error: patient_id not found in session state.">>)
           ELSE (~call.confirmed /\ Missing(call.key)
                   /\ (call.key = "file" => PyTruthy(call.arg)))
                  => result.kind = "return" /\ result.requested

\* C25: Vitals.is_stable is False exactly when a recorded value is outside its
\* stability band: heart rate present and above 120 or below 40, SpO2 present
\* and below 90, or systolic pressure present and below 90, for every value
\* the validators accept, 0 included.
C25_StableIffInBand ==
    stable = ~( \/ ~vitals.hr.isNone /\ (vitals.hr.n > 120 \/ vitals.hr.n < 40)
                \/ ~vitals.spo2.isNone /\ vitals.spo2.n < 900
                \/ ~vitals.bp_systolic.isNone /\ vitals.bp_systolic.n < 90 )

====
